---- MODULE Spec2Model ----
(***************************************************************************)
(* The enclave-call gateway of the LibOS (src/src/libos/src/entry.rs):     *)
(* occlum_ecall_init, occlum_ecall_new_process, occlum_ecall_exec_thread,  *)
(* with the once-guard, the readiness flag, the argument marshaler, the    *)
(* entry-point validator and the unwind-catching wrapper.                  *)
(***************************************************************************)
EXTENDS Integers, Sequences, FiniteSets, TLC

(***************************************************************************)
(* Bounds of the model.                                                    *)
(***************************************************************************)
NumThreads == 2
MaxInitCalls == 3
MaxPathLen == 4
MaxArgs == 2

(***************************************************************************)
(* Errno values negated by ecall_errno!.                                   *)
(***************************************************************************)
ENOENT == 2
EAGAIN == 11
EACCES == 13
EFAULT == 14
EEXIST == 17
EINVAL == 22

\* -(errno as i32)
ecall_errno(errno) == -errno

\* The largest i32.
I32_MAX == 2147483647

\* A pid_t is an unsigned 32-bit number: its top bit and its low 31 bits.
U32(top, low) == [top |-> top, low |-> low]

\* `pid_t as i32` keeps the bits: a set top bit makes the result negative.
pid_as_i32(pid) ==
    IF pid.top = 1 THEN pid.low - I32_MAX - 1 ELSE pid.low

(***************************************************************************)
(* Host memory: C strings are sequences of bytes; BadByte is a byte that   *)
(* is not valid UTF-8.  A pointer is null or points to such a string.      *)
(***************************************************************************)
Chars == {"/", ".", "a"}
BadByte == "xFF"

NullPtr == [null |-> TRUE, bytes |-> <<>>]
Ptr(s) == [null |-> FALSE, bytes |-> s]

\* CString::into_string / CStr::to_str succeed iff the bytes are valid UTF-8.
IsText(s) == \A i \in DOMAIN s : s[i] # BadByte

RECURSIVE StringsOfLen(_)
StringsOfLen(n) ==
    IF n = 0 THEN {<<>>}
    ELSE {Append(s, c) : s \in StringsOfLen(n - 1), c \in Chars}

StringsUpTo(n) == UNION {StringsOfLen(k) : k \in 0..n}

(***************************************************************************)
(* std::path on Unix.  A component is RootDir, CurDir, ParentDir or a      *)
(* Normal name; a Normal name never equals one of the other three.         *)
(***************************************************************************)
RootDir == <<"/">>
CurDir == <<".">>
ParentDir == <<".", ".">>

\* Path::has_root / Path::is_absolute
is_absolute(s) == Len(s) > 0 /\ s[1] = "/"

\* The segments of s between separators (empty segments included).
RECURSIVE Segments(_, _, _)
Segments(s, i, cur) ==
    IF i > Len(s) THEN <<cur>>
    ELSE IF s[i] = "/" THEN <<cur>> \o Segments(s, i + 1, <<>>)
    ELSE Segments(s, i + 1, Append(cur, s[i]))

\* Components drops empty segments and "."; a leading "." of a relative path
\* is kept as CurDir.
RECURSIVE NormalSegments(_, _)
NormalSegments(segs, i) ==
    IF i > Len(segs) THEN <<>>
    ELSE IF segs[i] = <<>> \/ segs[i] = CurDir
         THEN NormalSegments(segs, i + 1)
         ELSE <<segs[i]>> \o NormalSegments(segs, i + 1)

components(s) ==
    LET segs == Segments(s, 1, <<>>)
        head == IF is_absolute(s) THEN <<RootDir>>
                ELSE IF segs[1] = CurDir THEN <<CurDir>>
                ELSE <<>>
    IN head \o NormalSegments(segs, 1)

IsNormal(c) == c # RootDir /\ c # CurDir /\ c # ParentDir

\* Path::file_name: the last component when it is a Normal one.
has_file_name(s) ==
    LET cs == components(s)
    IN Len(cs) > 0 /\ IsNormal(cs[Len(cs)])

file_name(s) == LET cs == components(s) IN cs[Len(cs)]

IsPrefixSeq(p, q) ==
    Len(p) <= Len(q) /\ \A i \in 1..Len(p) : p[i] = q[i]

\* A prefix test on the bytes instead of on the components.
starts_with_bytes(path, base) == IsPrefixSeq(base, path)

\* Path::starts_with compares whole components.
starts_with(path, base) == IsPrefixSeq(components(base), components(path))

(***************************************************************************)
(* Results of fallible operations: Ok(v) or Err(errno).                    *)
(***************************************************************************)
Ok(v) == [ok |-> TRUE, errno |-> 0, val |-> v]
Err(e) == [ok |-> FALSE, errno |-> e, val |-> <<>>]

(***************************************************************************)
(* Log levels.  Level strings are byte strings; to_lowercase maps the      *)
(* ASCII capitals to their small letters and leaves other bytes alone.     *)
(***************************************************************************)
UpperCase == <<"A", "B", "C", "D", "E", "F", "G", "H", "I", "J", "K", "L", "M",
               "N", "O", "P", "Q", "R", "S", "T", "U", "V", "W", "X", "Y", "Z">>
LowerCase == <<"a", "b", "c", "d", "e", "f", "g", "h", "i", "j", "k", "l", "m",
               "n", "o", "p", "q", "r", "s", "t", "u", "v", "w", "x", "y", "z">>

to_lowercase(s) ==
    [i \in DOMAIN s |->
        IF \E k \in DOMAIN UpperCase : UpperCase[k] = s[i]
        THEN LowerCase[CHOOSE k \in DOMAIN UpperCase : UpperCase[k] = s[i]]
        ELSE s[i]]

DEFAULT_LEVEL == "Off"

\* A parser that rejects the level strings it does not know.
parse_log_level_strict(level_chars) ==
    IF level_chars.null THEN Ok(DEFAULT_LEVEL)
    ELSE IF ~IsText(level_chars.bytes) THEN Err(EINVAL)
    ELSE LET level_string == to_lowercase(level_chars.bytes)
         IN CASE level_string = <<"o", "f", "f">> -> Ok("Off")
              [] level_string \in {<<"p", "a", "n", "i", "c">>,
                                   <<"f", "a", "t", "a", "l">>,
                                   <<"e", "r", "r", "o", "r">>} -> Ok("Error")
              [] level_string \in {<<"w", "a", "r", "n", "i", "n", "g">>,
                                   <<"w", "a", "r", "n">>} -> Ok("Warn")
              [] level_string = <<"i", "n", "f", "o">> -> Ok("Info")
              [] level_string = <<"d", "e", "b", "u", "g">> -> Ok("Debug")
              [] level_string = <<"t", "r", "a", "c", "e">> -> Ok("Trace")
              [] OTHER -> Err(EINVAL)

parse_log_level(level_chars) ==
    IF level_chars.null THEN Ok(DEFAULT_LEVEL)
    ELSE IF ~IsText(level_chars.bytes) THEN Err(EINVAL)
    ELSE LET level_string == to_lowercase(level_chars.bytes)
         IN Ok(CASE level_string = <<"o", "f", "f">> -> "Off"
                 [] level_string = <<"p", "a", "n", "i", "c">> -> "Error"
                 [] level_string = <<"f", "a", "t", "a", "l">> -> "Error"
                 [] level_string = <<"e", "r", "r", "o", "r">> -> "Error"
                 [] level_string = <<"w", "a", "r", "n", "i", "n", "g">> -> "Warn"
                 [] level_string = <<"w", "a", "r", "n">> -> "Warn"
                 [] level_string = <<"i", "n", "f", "o">> -> "Info"
                 [] level_string = <<"d", "e", "b", "u", "g">> -> "Debug"
                 [] level_string = <<"t", "r", "a", "c", "e">> -> "Trace"
                 [] OTHER -> DEFAULT_LEVEL)

(***************************************************************************)
(* The untrusted-argument marshaler.                                       *)
(***************************************************************************)
\* An argv entry and the stdio struct are host memory: valid or not.
ArgEntry(s) == [valid |-> TRUE, bytes |-> s]
BadArgEntry == [valid |-> FALSE, bytes |-> <<>>]

\* Copies every entry in order; a malformed entry fails the whole vector.
clone_cstrings_safely(argv) ==
    IF \E i \in DOMAIN argv : ~argv[i].valid THEN Err(EINVAL)
    ELSE Ok([i \in DOMAIN argv |-> argv[i].bytes])

\* HostStdioFds::from_user: a null or invalid struct fails.
HostStdioFds_from_user(host_stdio_fds) ==
    IF ~host_stdio_fds.valid THEN Err(EINVAL)
    ELSE Ok(host_stdio_fds.fds)

\* args.insert(0, program_cstring) mistaken for a push at the end.
insert_last(args, program_cstring) == args \o <<program_cstring>>

\* args.insert(0, program_cstring)
insert_first(args, program_cstring) == <<program_cstring>> \o args

\* A marshaler that passes on a stdio struct it could not read, as empty.
parse_arguments_ignores_stdio(path_ptr, argv, host_stdio_fds) ==
    IF path_ptr.null THEN Err(EINVAL)
    ELSE IF ~IsText(path_ptr.bytes) THEN Err(EINVAL)
    ELSE IF ~has_file_name(path_ptr.bytes) THEN Err(EINVAL)
    ELSE LET cloned == clone_cstrings_safely(argv)
         IN IF ~cloned.ok THEN Err(cloned.errno)
            ELSE Ok([path |-> path_ptr.bytes,
                     args |-> insert_first(cloned.val, file_name(path_ptr.bytes)),
                     fds |-> host_stdio_fds.fds])

parse_arguments(path_ptr, argv, host_stdio_fds) ==
    IF path_ptr.null THEN Err(EINVAL)
    ELSE IF ~IsText(path_ptr.bytes) THEN Err(EINVAL)
    ELSE IF ~has_file_name(path_ptr.bytes) THEN Err(EINVAL)
    ELSE LET cloned == clone_cstrings_safely(argv)
             fds == HostStdioFds_from_user(host_stdio_fds)
         IN IF ~cloned.ok THEN Err(cloned.errno)
            ELSE IF ~fds.ok THEN Err(fds.errno)
            ELSE Ok([path |-> path_ptr.bytes,
                     args |-> insert_first(cloned.val, file_name(path_ptr.bytes)),
                     fds |-> fds.val])

(***************************************************************************)
(* The entry-point validator.                                              *)
(***************************************************************************)
has_parent_component(target_path) ==
    \E i \in DOMAIN components(target_path) :
        components(target_path)[i] = ParentDir

is_valid_entry_point(target_path, eps) ==
    \E i \in DOMAIN eps : starts_with(target_path, eps[i])

\* The validator with the allow-list check ahead of the parent-component check.
validate_allow_list_first(target_path, eps) ==
    IF ~is_absolute(target_path) THEN Err(EINVAL)
    ELSE IF ~is_valid_entry_point(target_path, eps) THEN Err(EACCES)
    ELSE IF has_parent_component(target_path) THEN Err(EINVAL)
    ELSE Ok(<<>>)

validate_program_path(target_path, eps) ==
    IF ~is_absolute(target_path) THEN Err(EINVAL)
    ELSE IF has_parent_component(target_path) THEN Err(EINVAL)
    ELSE IF ~is_valid_entry_point(target_path, eps) THEN Err(EACCES)
    ELSE Ok(<<>>)

(***************************************************************************)
(* What one gateway call did: the status it returned, the collaborators   *)
(* it invoked in order, and the arguments they were invoked with.          *)
(*   inner  "none": the wrapped operation was not run; "ok": it returned  *)
(*          Ok; "err": it returned Err(errno); "panic": it raised a fault. *)
(***************************************************************************)
NoArgs == [path |-> <<>>, args |-> <<>>, fds |-> <<>>]

CallRecord(op, status, calls, inner, errno, value, parsed, spawned, backtrace) ==
    [op |-> op, status |-> status, calls |-> calls, inner |-> inner,
     errno |-> errno, value |-> value, host |-> parsed, spawn |-> spawned,
     backtrace |-> backtrace]

NoCall == CallRecord("none", 0, <<>>, "none", 0, 0, NoArgs, NoArgs, <<>>)

\* The outcome of a wrapped operation: the collaborators it invoked, whether
\* it unwound, and its Result when it did not.
Outcome(calls, panicked, res, spawned) ==
    [calls |-> calls, panicked |-> panicked, res |-> res, spawn |-> spawned]

(***************************************************************************)
(* The process bootstrapper.  beh is what the collaborators do in this     *)
(* call: beh.fault names the step that raises a fault ("none" for no       *)
(* fault), beh.spawn is the Result of process::do_spawn_without_exec.      *)
(***************************************************************************)
\* A bootstrapper that spawns first and validates afterwards.
spawn_before_validation(program_path, argv, host_stdio_fds, eps, beh) ==
    LET spawned == [path |-> program_path, args |-> argv, fds |-> host_stdio_fds]
        v == validate_program_path(program_path, eps)
    IN IF beh.fault = "spawn"
       THEN Outcome(<<"do_spawn_without_exec">>, TRUE, Err(0), spawned)
       ELSE IF ~beh.spawn.ok
       THEN Outcome(<<"do_spawn_without_exec">>, FALSE, beh.spawn, spawned)
       ELSE IF ~v.ok
       THEN Outcome(<<"do_spawn_without_exec", "validate_program_path">>,
                    FALSE, v, spawned)
       ELSE Outcome(<<"do_spawn_without_exec", "validate_program_path">>,
                    FALSE, beh.spawn, spawned)

do_new_process(program_path, argv, host_stdio_fds, eps, beh) ==
    LET v == validate_program_path(program_path, eps)
        spawned == [path |-> program_path, args |-> argv, fds |-> host_stdio_fds]
    IN IF beh.fault = "validate"
       THEN Outcome(<<"validate_program_path">>, TRUE, Err(0), NoArgs)
       ELSE IF ~v.ok
       THEN Outcome(<<"validate_program_path">>, FALSE, v, NoArgs)
       ELSE IF beh.fault = "env"
       THEN Outcome(<<"validate_program_path", "LIBOS_CONFIG.env">>,
                    TRUE, Err(0), NoArgs)
       ELSE IF beh.fault = "spawn"
       THEN Outcome(<<"validate_program_path", "LIBOS_CONFIG.env",
                      "do_spawn_without_exec">>, TRUE, Err(0), spawned)
       ELSE Outcome(<<"validate_program_path", "LIBOS_CONFIG.env",
                      "do_spawn_without_exec">>, FALSE, beh.spawn, spawned)

(***************************************************************************)
(* The thread executor.  beh.exec is the Result of process::task::exec,    *)
(* beh.sync the Result of ROOT_INODE.fs().sync().                          *)
(***************************************************************************)
\* A thread executor that syncs the filesystem before it runs the thread.
sync_before_exec(libos_tid, host_tid, beh) ==
    IF beh.fault = "sync"
    THEN Outcome(<<"fs().sync">>, TRUE, Err(0), NoArgs)
    ELSE IF ~beh.sync.ok
    THEN Outcome(<<"fs().sync">>, FALSE, beh.sync, NoArgs)
    ELSE IF beh.fault = "exec"
    THEN Outcome(<<"fs().sync", "task::exec">>, TRUE, Err(0), NoArgs)
    ELSE Outcome(<<"fs().sync", "task::exec">>, FALSE, beh.exec, NoArgs)

do_exec_thread(libos_tid, host_tid, beh) ==
    IF beh.fault = "exec"
    THEN Outcome(<<"task::exec">>, TRUE, Err(0), NoArgs)
    ELSE IF ~beh.exec.ok
    THEN Outcome(<<"task::exec">>, FALSE, beh.exec, NoArgs)
    ELSE IF beh.fault = "sync"
    THEN Outcome(<<"task::exec", "fs().sync">>, TRUE, Err(0), NoArgs)
    ELSE IF ~beh.sync.ok
    THEN Outcome(<<"task::exec", "fs().sync">>, FALSE, beh.sync, NoArgs)
    ELSE Outcome(<<"task::exec", "fs().sync">>, FALSE, beh.exec, NoArgs)

(***************************************************************************)
(* panic::catch_unwind(...).unwrap_or(ecall_errno!(EFAULT)) around the     *)
(* match that turns Ok(v) into v (an i32) and Err(e) into -errno.          *)
(***************************************************************************)
\* A wrapper that reports every failure of the wrapped operation as EFAULT.
catch_unwind_all_efault(out) ==
    IF out.panicked \/ ~out.res.ok THEN ecall_errno(EFAULT)
    ELSE out.res.val

\* A wrapper that lets the errno of the fault site through.
catch_unwind_leaky(out) ==
    IF out.panicked THEN ecall_errno(EINVAL)
    ELSE IF out.res.ok THEN out.res.val
    ELSE ecall_errno(out.res.errno)

catch_unwind(out) ==
    IF out.panicked THEN ecall_errno(EFAULT)
    ELSE IF out.res.ok THEN out.res.val
    ELSE ecall_errno(out.res.errno)

InnerOf(out) ==
    IF out.panicked THEN "panic" ELSE IF out.res.ok THEN "ok" ELSE "err"

\* A gate that lets calls through before initialisation.
gate_open(has_init) == TRUE

\* HAS_INIT.load(Ordering::SeqCst) == false  =>  return EAGAIN
gate_passed(has_init) == has_init

occlum_ecall_new_process(has_init, enclave_path, path_buf, argv, fds_ptr, eps, beh) ==
    IF ~gate_passed(has_init)
    THEN CallRecord("new_process", ecall_errno(EAGAIN), <<>>, "none", 0, 0,
                    NoArgs, NoArgs, <<>>)
    ELSE LET parsed == parse_arguments(path_buf, argv, fds_ptr)
             host == [path |-> path_buf, args |-> argv, fds |-> fds_ptr]
         IN IF ~parsed.ok
            THEN CallRecord("new_process", ecall_errno(parsed.errno),
                            <<"parse_arguments">>, "none", 0, 0,
                            host, NoArgs, <<>>)
            ELSE LET out == do_new_process(parsed.val.path, parsed.val.args,
                                           parsed.val.fds, eps, beh)
                     cast == IF ~out.panicked /\ out.res.ok
                             THEN [out EXCEPT !.res.val = pid_as_i32(@)]
                             ELSE out
                 IN CallRecord("new_process", catch_unwind(cast),
                               <<"parse_arguments", "enable_backtrace">> \o out.calls,
                               InnerOf(out),
                               IF InnerOf(out) = "err" THEN out.res.errno ELSE 0,
                               IF InnerOf(out) = "ok" THEN out.res.val ELSE 0,
                               host, out.spawn, enclave_path)

occlum_ecall_exec_thread(has_init, enclave_path, libos_pid, host_tid, beh) ==
    IF ~gate_passed(has_init)
    THEN CallRecord("exec_thread", ecall_errno(EAGAIN), <<>>, "none", 0, 0,
                    NoArgs, NoArgs, <<>>)
    ELSE LET out == do_exec_thread(libos_pid, host_tid, beh)
         IN CallRecord("exec_thread", catch_unwind(out),
                       <<"enable_backtrace">> \o out.calls,
                       InnerOf(out),
                       IF InnerOf(out) = "err" THEN out.res.errno ELSE 0,
                       IF InnerOf(out) = "ok" THEN out.res.val ELSE 0,
                       NoArgs, NoArgs, enclave_path)

(***************************************************************************)
(* The gateway's state.                                                    *)
(***************************************************************************)
VARIABLES
    HAS_INIT,            \* the readiness flag
    INIT_ONCE,           \* the Once: INCOMPLETE, RUNNING, COMPLETE or POISONED
    INSTANCE_DIR,        \* static mut INSTANCE_DIR
    ENCLAVE_PATH,        \* static mut ENCLAVE_PATH
    logger,              \* the level util::log::init was given, "unset" before
    mpx_enabled,         \* util::mpx_util::mpx_enable() has run
    handlers,            \* how often register_exception_handlers() has run
    init_steps,          \* the steps of the init body, in the order they ran
    pc,                  \* where each host thread is inside occlum_ecall_init
    frame,               \* the locals of each thread's init call
    init_returns,        \* how the init calls ended, in the order they ended
    last_call,           \* what the last new_process / exec_thread call did
    crashed,             \* a panic left an extern "C" function and aborted
    entry_points,        \* config::LIBOS_CONFIG.entry_points
    platform             \* the capability probe: allow_debug and MPX in xfrm

vars == <<HAS_INIT, INIT_ONCE, INSTANCE_DIR, ENCLAVE_PATH, logger, mpx_enabled,
          handlers, init_steps, pc, frame, init_returns, last_call, crashed,
          entry_points, platform>>

Threads == 1..NumThreads

ENCLAVE_SUFFIX == <<"/build/lib/libocclum-libos.signed.so">>

NoFrame ==
    [level_chars |-> NullPtr, log_level |-> "Off", instance_dir |-> <<>>,
     saw_ready |-> FALSE, ran_body |-> FALSE]

InitsStarted ==
    Len(init_returns) + Cardinality({t \in Threads : pc[t] # "idle"})

(***************************************************************************)
(* The inputs the host may pass and what the collaborators may do.         *)
(***************************************************************************)
TraceLevel == <<"T", "r", "a", "c", "e">>
GoodDir == <<"/", "a">>
BadDir == <<"/", BadByte>>

LogLevelInputs == {NullPtr, Ptr(TraceLevel), Ptr(<<BadByte>>)}
InstanceDirInputs == {Ptr(GoodDir), Ptr(<<>>), Ptr(BadDir), NullPtr}

ValidInitArgs(log_level, instance_dir) ==
    /\ log_level.null \/ IsText(log_level.bytes)
    /\ ~instance_dir.null
    /\ IsText(instance_dir.bytes)

\* Paths longer than MaxPathLen that reach the deeper cases of the policy.
LongPaths ==
    { <<"/", "a", "/", ".", ".", "/", "a">>,      \* /a/../a
      <<"/", ".", ".", "/", "a">>,                \* /../a
      <<"/", "/", "a", "/", ".", "/", "a", "/">>, \* //a/./a/
      <<"/", "a", "a", "/", "a">>,                \* /aa/a
      <<"a", "/", ".", ".", "/", "a">> }          \* a/../a

AllPathInputs ==
    {NullPtr, Ptr(<<"/", "a", BadByte>>)}
        \cup {Ptr(s) : s \in StringsUpTo(MaxPathLen) \cup LongPaths}

SamplePathInputs == {NullPtr, Ptr(<<"/", "a">>), Ptr(<<"a">>)}

ArgStrings == {<<"x">>, <<"y">>}

RECURSIVE ArgVectorsOfLen(_)
ArgVectorsOfLen(n) ==
    IF n = 0 THEN {<<>>}
    ELSE {Append(v, ArgEntry(a)) : v \in ArgVectorsOfLen(n - 1), a \in ArgStrings}

WellFormedArgv == UNION {ArgVectorsOfLen(k) : k \in 0..MaxArgs}

AllArgvInputs ==
    WellFormedArgv \cup {<<BadArgEntry>>, <<ArgEntry(<<"x">>), BadArgEntry>>}

GoodStdio == [valid |-> TRUE, fds |-> <<0, 1, 2>>]
BadStdio == [valid |-> FALSE, fds |-> <<>>]
StdioInputs == {GoodStdio, BadStdio}

\* The pids 1 and 2^32 - 14.
SamplePids == {U32(0, 1), U32(1, I32_MAX - 13)}

BootBehaviours ==
    {[fault |-> "none", spawn |-> Ok(p)] : p \in SamplePids}
        \cup {[fault |-> "none", spawn |-> Err(e)] : e \in {ENOENT, EFAULT}}
        \cup {[fault |-> f, spawn |-> Ok(U32(0, 1))] : f \in {"validate", "env", "spawn"}}

SampleStatuses == {0, 256}

ExecBehaviours ==
    {[fault |-> "none", exec |-> Ok(st), sync |-> Ok(<<>>)] : st \in SampleStatuses}
        \cup {[fault |-> "none", exec |-> Err(ENOENT), sync |-> Ok(<<>>)],
              [fault |-> "none", exec |-> Ok(0), sync |-> Err(EFAULT)],
              [fault |-> "none", exec |-> Ok(0), sync |-> Err(EACCES)],
              [fault |-> "exec", exec |-> Ok(0), sync |-> Ok(<<>>)],
              [fault |-> "sync", exec |-> Ok(0), sync |-> Ok(<<>>)]}

EntryPointConfigs ==
    { << <<"/", "a">> >>,
      << <<"/">> >>,
      << <<"/", "a", "/", "a">>, <<"/", ".", "a">> >>,
      << >> }

\* Level strings: every recognised name, names in capitals and mixed case,
\* names the parser does not know, the empty string.
LevelStrings ==
    { <<"o", "f", "f">>, <<"p", "a", "n", "i", "c">>, <<"f", "a", "t", "a", "l">>,
      <<"e", "r", "r", "o", "r">>, <<"w", "a", "r", "n", "i", "n", "g">>,
      <<"w", "a", "r", "n">>, <<"i", "n", "f", "o">>, <<"d", "e", "b", "u", "g">>,
      <<"t", "r", "a", "c", "e">>, TraceLevel, <<"D", "E", "B", "U", "G">>,
      <<"v", "e", "r", "b", "o", "s", "e">>, <<"t", "r", "a", "c", "e", "s">>,
      <<"5">>, <<>> }

\* Every level string, a null pointer and two strings that are not text.
AllLogLevelInputs ==
    {NullPtr, Ptr(<<BadByte>>), Ptr(<<"t", "r", "a", "c", "e", BadByte>>)}
        \cup {Ptr(s) : s \in LevelStrings}

\* A debug enclave on a CPU with MPX, and a production enclave without.
Platforms ==
    {[allow_debug |-> TRUE, mpx |-> TRUE], [allow_debug |-> FALSE, mpx |-> FALSE]}

(***************************************************************************)
(* The state after the enclave image is loaded: the statics are empty,     *)
(* nothing is initialised, the configuration is loaded.                    *)
(***************************************************************************)
InitWith(configs, platforms) ==
    /\ HAS_INIT = FALSE
    /\ INIT_ONCE = "INCOMPLETE"
    /\ INSTANCE_DIR = <<>>
    /\ ENCLAVE_PATH = <<>>
    /\ logger = "unset"
    /\ mpx_enabled = FALSE
    /\ handlers = 0
    /\ init_steps = <<>>
    /\ pc = [t \in Threads |-> "idle"]
    /\ frame = [t \in Threads |-> NoFrame]
    /\ init_returns = <<>>
    /\ last_call = NoCall
    /\ crashed = FALSE
    /\ entry_points \in configs
    /\ platform \in platforms

(***************************************************************************)
(* occlum_ecall_init, one step per access to shared state.                 *)
(***************************************************************************)
InitReturn(status, returned, saw_ready, ran_body, valid) ==
    [status |-> status, returned |-> returned, saw_ready |-> saw_ready,
     ran_body |-> ran_body, valid |-> valid]

\* A gateway that hands the requested level to the logger on any platform.
requested_log_level(input_log_level, allow_debug) == input_log_level

\* if sgx_allow_debug() { input_log_level } else { LevelFilter::Off }
effective_log_level(input_log_level, allow_debug) ==
    IF allow_debug THEN input_log_level ELSE "Off"

\* An entry check that never finds the gateway initialised.
never_initialised(has_init) == FALSE

\* HAS_INIT.load(Ordering::SeqCst) == true  =>  return EEXIST
already_initialised(has_init) == has_init

\* An entry that has taken the once token when it rejects the log level.
InitCallRejectsInsideOnce(t, log_level, instance_dir) ==
    /\ ~crashed
    /\ pc[t] = "idle"
    /\ InitsStarted < MaxInitCalls
    /\ LET parsed == parse_log_level(log_level)
           valid == ValidInitArgs(log_level, instance_dir)
       IN IF already_initialised(HAS_INIT)
          THEN /\ init_returns' = Append(init_returns,
                      InitReturn(ecall_errno(EEXIST), TRUE, TRUE, FALSE, valid))
               /\ UNCHANGED <<pc, frame, INIT_ONCE>>
          ELSE IF instance_dir.null
          THEN /\ pc' = [pc EXCEPT ![t] = "panic"]
               /\ UNCHANGED <<frame, init_returns, INIT_ONCE>>
          ELSE IF ~parsed.ok
          THEN /\ init_returns' = Append(init_returns,
                      InitReturn(ecall_errno(EINVAL), TRUE, FALSE, FALSE, valid))
               /\ INIT_ONCE' = IF INIT_ONCE = "INCOMPLETE" THEN "COMPLETE"
                                ELSE INIT_ONCE
               /\ UNCHANGED <<pc, frame>>
          ELSE /\ pc' = [pc EXCEPT ![t] = "call_once"]
               /\ frame' = [frame EXCEPT ![t] =
                      [level_chars |-> log_level,
                       log_level |-> effective_log_level(parsed.val,
                                                         platform.allow_debug),
                       instance_dir |-> instance_dir.bytes,
                       saw_ready |-> HAS_INIT,
                       ran_body |-> FALSE]]
               /\ UNCHANGED <<init_returns, INIT_ONCE>>
    /\ UNCHANGED <<HAS_INIT, INSTANCE_DIR, ENCLAVE_PATH, logger,
                   mpx_enabled, handlers, init_steps, last_call, crashed,
                   entry_points, platform>>

\* An entry that checks its arguments before it loads the readiness flag.
InitCallChecksArgsFirst(t, log_level, instance_dir) ==
    /\ ~crashed
    /\ pc[t] = "idle"
    /\ InitsStarted < MaxInitCalls
    /\ LET parsed == parse_log_level(log_level)
           valid == ValidInitArgs(log_level, instance_dir)
       IN IF instance_dir.null
          THEN /\ pc' = [pc EXCEPT ![t] = "panic"]
               /\ UNCHANGED <<frame, init_returns>>
          ELSE IF ~parsed.ok
          THEN /\ init_returns' = Append(init_returns,
                      InitReturn(ecall_errno(EINVAL), TRUE, HAS_INIT, FALSE, valid))
               /\ UNCHANGED <<pc, frame>>
          ELSE IF already_initialised(HAS_INIT)
          THEN /\ init_returns' = Append(init_returns,
                      InitReturn(ecall_errno(EEXIST), TRUE, TRUE, FALSE, valid))
               /\ UNCHANGED <<pc, frame>>
          ELSE /\ pc' = [pc EXCEPT ![t] = "call_once"]
               /\ frame' = [frame EXCEPT ![t] =
                      [level_chars |-> log_level,
                       log_level |-> effective_log_level(parsed.val,
                                                         platform.allow_debug),
                       instance_dir |-> instance_dir.bytes,
                       saw_ready |-> HAS_INIT,
                       ran_body |-> FALSE]]
               /\ UNCHANGED init_returns
    /\ UNCHANGED <<HAS_INIT, INIT_ONCE, INSTANCE_DIR, ENCLAVE_PATH, logger,
                   mpx_enabled, handlers, init_steps, last_call, crashed,
                   entry_points, platform>>

\* Entry: the readiness load, the assertion on instance_dir, the log level.
InitCall(t, log_level, instance_dir) ==
    /\ ~crashed
    /\ pc[t] = "idle"
    /\ InitsStarted < MaxInitCalls
    /\ LET parsed == parse_log_level(log_level)
           valid == ValidInitArgs(log_level, instance_dir)
       IN IF already_initialised(HAS_INIT)
          THEN /\ init_returns' = Append(init_returns,
                      InitReturn(ecall_errno(EEXIST), TRUE, TRUE, FALSE, valid))
               /\ UNCHANGED <<pc, frame>>
          ELSE IF instance_dir.null
          THEN /\ pc' = [pc EXCEPT ![t] = "panic"]
               /\ UNCHANGED <<frame, init_returns>>
          ELSE IF ~parsed.ok
          THEN /\ init_returns' = Append(init_returns,
                      InitReturn(ecall_errno(EINVAL), TRUE, FALSE, FALSE, valid))
               /\ UNCHANGED <<pc, frame>>
          ELSE /\ pc' = [pc EXCEPT ![t] = "call_once"]
               /\ frame' = [frame EXCEPT ![t] =
                      [level_chars |-> log_level,
                       log_level |-> effective_log_level(parsed.val,
                                                         platform.allow_debug),
                       instance_dir |-> instance_dir.bytes,
                       saw_ready |-> HAS_INIT,
                       ran_body |-> FALSE]]
               /\ UNCHANGED init_returns
    /\ UNCHANGED <<HAS_INIT, INIT_ONCE, INSTANCE_DIR, ENCLAVE_PATH, logger,
                   mpx_enabled, handlers, init_steps, last_call, crashed,
                   entry_points, platform>>

\* A guard that runs the closure whenever no closure is running.
call_once_unguarded(once) ==
    IF once = "RUNNING" THEN "wait" ELSE "run"

\* A guard that lets a caller pass while another caller runs the closure.
call_once_skips_running(once) ==
    CASE once = "INCOMPLETE" -> "run"
      [] once = "RUNNING" -> "skip"
      [] once = "COMPLETE" -> "skip"
      [] once = "POISONED" -> "panic"

\* Once::call_once: run the closure if none has run, wait while one is
\* running, skip when one has completed, panic when one has panicked.
call_once(once) ==
    CASE once = "INCOMPLETE" -> "run"
      [] once = "RUNNING" -> "wait"
      [] once = "COMPLETE" -> "skip"
      [] once = "POISONED" -> "panic"

CallOnce(t) ==
    /\ ~crashed
    /\ pc[t] = "call_once"
    /\ call_once(INIT_ONCE) # "wait"
    /\ IF call_once(INIT_ONCE) = "run"
       THEN /\ INIT_ONCE' = "RUNNING"
            /\ pc' = [pc EXCEPT ![t] = "log"]
            /\ frame' = [frame EXCEPT ![t].ran_body = TRUE]
       ELSE IF call_once(INIT_ONCE) = "skip"
       THEN /\ pc' = [pc EXCEPT ![t] = "return"]
            /\ UNCHANGED <<INIT_ONCE, frame>>
       ELSE /\ pc' = [pc EXCEPT ![t] = "panic"]
            /\ UNCHANGED <<INIT_ONCE, frame>>
    /\ UNCHANGED <<HAS_INIT, INSTANCE_DIR, ENCLAVE_PATH, logger, mpx_enabled,
                   handlers, init_steps, init_returns, last_call, crashed,
                   entry_points, platform>>

\* An init body that sets readiness as its first step instead of its last.
BodyLogSetsReady(t) ==
    /\ ~crashed
    /\ pc[t] = "log"
    /\ logger' = frame[t].log_level
    /\ HAS_INIT' = TRUE
    /\ init_steps' = Append(init_steps, "log")
    /\ pc' = [pc EXCEPT ![t] = "mpx"]
    /\ UNCHANGED <<INIT_ONCE, INSTANCE_DIR, ENCLAVE_PATH, mpx_enabled,
                   handlers, frame, init_returns, last_call, crashed,
                   entry_points, platform>>

\* util::log::init(log_level)
BodyLog(t) ==
    /\ ~crashed
    /\ pc[t] = "log"
    /\ logger' = frame[t].log_level
    /\ init_steps' = Append(init_steps, "log")
    /\ pc' = [pc EXCEPT ![t] = "mpx"]
    /\ UNCHANGED <<HAS_INIT, INIT_ONCE, INSTANCE_DIR, ENCLAVE_PATH, mpx_enabled,
                   handlers, frame, init_returns, last_call, crashed,
                   entry_points, platform>>

\* rsgx_self_report() and mpx_enable() when xfrm has SGX_XFRM_MPX
BodyMpx(t) ==
    /\ ~crashed
    /\ pc[t] = "mpx"
    /\ mpx_enabled' = (mpx_enabled \/ platform.mpx)
    /\ init_steps' = Append(init_steps, "mpx")
    /\ pc' = [pc EXCEPT ![t] = "exception"]
    /\ UNCHANGED <<HAS_INIT, INIT_ONCE, INSTANCE_DIR, ENCLAVE_PATH, logger,
                   handlers, frame, init_returns, last_call, crashed,
                   entry_points, platform>>

\* register_exception_handlers()
BodyException(t) ==
    /\ ~crashed
    /\ pc[t] = "exception"
    /\ handlers' = handlers + 1
    /\ init_steps' = Append(init_steps, "exception")
    /\ pc' = [pc EXCEPT ![t] = "paths"]
    /\ UNCHANGED <<HAS_INIT, INIT_ONCE, INSTANCE_DIR, ENCLAVE_PATH, logger,
                   mpx_enabled, frame, init_returns, last_call, crashed,
                   entry_points, platform>>

\* A body that skips the path writes when instance_dir is not text and
\* goes on to the readiness store.
BodyPathsSkipsBadDir(t) ==
    /\ ~crashed
    /\ pc[t] = "paths"
    /\ IF IsText(frame[t].instance_dir)
       THEN /\ INSTANCE_DIR' = INSTANCE_DIR \o frame[t].instance_dir
            /\ ENCLAVE_PATH' = ENCLAVE_PATH \o INSTANCE_DIR' \o ENCLAVE_SUFFIX
       ELSE UNCHANGED <<INSTANCE_DIR, ENCLAVE_PATH>>
    /\ init_steps' = Append(init_steps, "paths")
    /\ pc' = [pc EXCEPT ![t] = "store"]
    /\ UNCHANGED <<HAS_INIT, INIT_ONCE, logger, mpx_enabled, handlers, frame,
                   init_returns, last_call, crashed, entry_points, platform>>

\* to_str().unwrap() on instance_dir, then the two push_str sequences.  The
\* unwrap panics inside the closure, which poisons the Once.
BodyPaths(t) ==
    /\ ~crashed
    /\ pc[t] = "paths"
    /\ IF IsText(frame[t].instance_dir)
       THEN /\ INSTANCE_DIR' = INSTANCE_DIR \o frame[t].instance_dir
            /\ ENCLAVE_PATH' = ENCLAVE_PATH \o INSTANCE_DIR' \o ENCLAVE_SUFFIX
            /\ init_steps' = Append(init_steps, "paths")
            /\ pc' = [pc EXCEPT ![t] = "store"]
            /\ UNCHANGED INIT_ONCE
       ELSE /\ INIT_ONCE' = "POISONED"
            /\ pc' = [pc EXCEPT ![t] = "panic"]
            /\ UNCHANGED <<INSTANCE_DIR, ENCLAVE_PATH, init_steps>>
    /\ UNCHANGED <<HAS_INIT, logger, mpx_enabled, handlers, frame, init_returns,
                   last_call, crashed, entry_points, platform>>

\* HAS_INIT.store(true, Ordering::SeqCst)
BodyStore(t) ==
    /\ ~crashed
    /\ pc[t] = "store"
    /\ HAS_INIT' = TRUE
    /\ init_steps' = Append(init_steps, "ready")
    /\ pc' = [pc EXCEPT ![t] = "complete"]
    /\ UNCHANGED <<INIT_ONCE, INSTANCE_DIR, ENCLAVE_PATH, logger, mpx_enabled,
                   handlers, frame, init_returns, last_call, crashed,
                   entry_points, platform>>

\* The closure returns: the Once becomes COMPLETE and wakes the waiters.
OnceComplete(t) ==
    /\ ~crashed
    /\ pc[t] = "complete"
    /\ INIT_ONCE' = "COMPLETE"
    /\ pc' = [pc EXCEPT ![t] = "return"]
    /\ UNCHANGED <<HAS_INIT, INSTANCE_DIR, ENCLAVE_PATH, logger, mpx_enabled,
                   handlers, init_steps, frame, init_returns, last_call, crashed,
                   entry_points, platform>>

\* The `0` that ends occlum_ecall_init.
InitDone(t) ==
    /\ ~crashed
    /\ pc[t] = "return"
    /\ init_returns' = Append(init_returns,
           InitReturn(0, TRUE, frame[t].saw_ready, frame[t].ran_body,
                      IsText(frame[t].instance_dir)))
    /\ pc' = [pc EXCEPT ![t] = "idle"]
    /\ frame' = [frame EXCEPT ![t] = NoFrame]
    /\ UNCHANGED <<HAS_INIT, INIT_ONCE, INSTANCE_DIR, ENCLAVE_PATH, logger,
                   mpx_enabled, handlers, init_steps, last_call, crashed,
                   entry_points, platform>>

\* A panic leaves occlum_ecall_init, an extern "C" function no catch_unwind
\* protects: the build either aborts the enclave or unwinds into the host
\* caller, and in neither case is a status returned.
InitUnwind(t, aborts) ==
    /\ ~crashed
    /\ pc[t] = "panic"
    /\ crashed' = aborts
    /\ init_returns' = Append(init_returns,
           InitReturn(0, FALSE, frame[t].saw_ready, frame[t].ran_body, FALSE))
    /\ pc' = [pc EXCEPT ![t] = "idle"]
    /\ frame' = [frame EXCEPT ![t] = NoFrame]
    /\ UNCHANGED <<HAS_INIT, INIT_ONCE, INSTANCE_DIR, ENCLAVE_PATH, logger,
                   mpx_enabled, handlers, init_steps, last_call,
                   entry_points, platform>>

(***************************************************************************)
(* occlum_ecall_new_process and occlum_ecall_exec_thread.  Their only      *)
(* access to shared state is the readiness load at entry and the read of   *)
(* ENCLAVE_PATH behind it, so a call is one step.  The host thread that    *)
(* makes these calls takes the status of one call before it makes the      *)
(* next; it is not one of the threads inside occlum_ecall_init.            *)
(***************************************************************************)
NewProcess(path_buf, argv, host_stdio_fds, beh) ==
    /\ ~crashed
    /\ last_call = NoCall
    /\ last_call' = occlum_ecall_new_process(HAS_INIT, ENCLAVE_PATH, path_buf,
                        argv, host_stdio_fds, entry_points, beh)
    /\ UNCHANGED <<HAS_INIT, INIT_ONCE, INSTANCE_DIR, ENCLAVE_PATH, logger,
                   mpx_enabled, handlers, init_steps, pc, frame, init_returns,
                   crashed, entry_points, platform>>

\* An exec_thread that takes the gateway out of service after a fault.
ExecThreadFaultClearsReady(libos_pid, host_tid, beh) ==
    /\ ~crashed
    /\ last_call = NoCall
    /\ last_call' = occlum_ecall_exec_thread(HAS_INIT, ENCLAVE_PATH, libos_pid,
                        host_tid, beh)
    /\ HAS_INIT' = (HAS_INIT /\ last_call'.inner # "panic")
    /\ UNCHANGED <<INIT_ONCE, INSTANCE_DIR, ENCLAVE_PATH, logger,
                   mpx_enabled, handlers, init_steps, pc, frame, init_returns,
                   crashed, entry_points, platform>>

ExecThread(libos_pid, host_tid, beh) ==
    /\ ~crashed
    /\ last_call = NoCall
    /\ last_call' = occlum_ecall_exec_thread(HAS_INIT, ENCLAVE_PATH, libos_pid,
                        host_tid, beh)
    /\ UNCHANGED <<HAS_INIT, INIT_ONCE, INSTANCE_DIR, ENCLAVE_PATH, logger,
                   mpx_enabled, handlers, init_steps, pc, frame, init_returns,
                   crashed, entry_points, platform>>

\* The host has the status of its last call and is free to call again.
HostTakesStatus ==
    /\ last_call # NoCall
    /\ last_call' = NoCall
    /\ UNCHANGED <<HAS_INIT, INIT_ONCE, INSTANCE_DIR, ENCLAVE_PATH, logger,
                   mpx_enabled, handlers, init_steps, pc, frame, init_returns,
                   crashed, entry_points, platform>>

(***************************************************************************)
(* The host calls the three ECalls from its threads, in any order.         *)
(***************************************************************************)
InitSteps(t) ==
    \/ CallOnce(t)
    \/ BodyLog(t)
    \/ BodyMpx(t)
    \/ BodyException(t)
    \/ BodyPaths(t)
    \/ BodyStore(t)
    \/ OnceComplete(t)
    \/ InitDone(t)
    \/ \E aborts \in BOOLEAN : InitUnwind(t, aborts)

\* One new_process call: what the host passes and what the collaborators do.
BootInput(p, a, f, b) == [path |-> p, argv |-> a, fds |-> f, beh |-> b]

\* A sample of paths, with a spawn that succeeds and one that faults.
SampleBootInputs ==
    {BootInput(p, <<>>, GoodStdio, b) :
        p \in SamplePathInputs,
        b \in {[fault |-> "none", spawn |-> Ok(U32(0, 1))],
               [fault |-> "spawn", spawn |-> Ok(U32(0, 1))]}}

\* Every path with two argument vectors, and a sample of paths with every
\* argument vector, stdio struct and collaborator behaviour.
AllBootInputs ==
    {BootInput(p, a, GoodStdio, b) :
        p \in AllPathInputs,
        a \in {<<>>, <<ArgEntry(<<"x">>), ArgEntry(<<"y">>)>>},
        b \in {[fault |-> "none", spawn |-> Ok(U32(0, 1))]}}
    \cup
    {BootInput(p, a, f, b) : p \in SamplePathInputs, a \in AllArgvInputs,
                             f \in StdioInputs, b \in BootBehaviours}

Gateway(threads, levels, dirs, boots) ==
    \/ \E t \in threads, l \in levels, d \in dirs : InitCall(t, l, d)
    \/ \E t \in threads : InitSteps(t)
    \/ \E i \in boots : NewProcess(i.path, i.argv, i.fds, i.beh)
    \/ \E b \in ExecBehaviours : ExecThread(1, 1, b)
    \/ HostTakesStatus

\* Concurrent init callers, with a sample of new_process inputs.
Next ==
    Gateway(Threads, LogLevelInputs, InstanceDirInputs, SampleBootInputs)

Spec == InitWith({<< <<"/", "a">> >>}, Platforms) /\ [][Next]_vars

\* One init caller, with every new_process input.
NextBoot ==
    Gateway({1}, {NullPtr}, {Ptr(GoodDir), Ptr(BadDir)}, AllBootInputs)

SpecBoot ==
    InitWith(EntryPointConfigs, {[allow_debug |-> FALSE, mpx |-> FALSE]})
        /\ [][NextBoot]_vars

\* One init caller, with every log-level input.
NextLog ==
    Gateway({1}, AllLogLevelInputs, {Ptr(GoodDir), Ptr(BadDir), NullPtr},
            SampleBootInputs)

SpecLog == InitWith({<< <<"/", "a">> >>}, Platforms) /\ [][NextLog]_vars

\* Concurrent init callers that keep running: a thread inside
\* occlum_ecall_init takes its next step, and a caller blocked in call_once
\* is woken when the closure has returned.
NextFair ==
    Gateway(Threads, {NullPtr}, {Ptr(GoodDir), Ptr(<<>>), Ptr(BadDir)},
            SampleBootInputs)

SpecFair ==
    /\ InitWith({<< <<"/", "a">> >>}, {[allow_debug |-> FALSE, mpx |-> FALSE]})
    /\ [][NextFair]_vars
    /\ \A t \in Threads : WF_vars(InitSteps(t))

(***************************************************************************)
(* Properties.                                                             *)
(***************************************************************************)
Returns == {init_returns[i] : i \in DOMAIN init_returns}

InInit == {t \in Threads : pc[t] # "idle"}

\* Every init call made so far was given valid arguments.
OnlyValidInitCalls ==
    /\ \A r \in Returns : r.valid
    /\ \A t \in InInit : pc[t] # "panic" /\ IsText(frame[t].instance_dir)

ReturnedOk(r) == r.returned /\ r.status = 0
ReturnedExist(r) == r.returned /\ r.status = ecall_errno(EEXIST)
ReturnedInval(r) == r.returned /\ r.status = ecall_errno(EINVAL)
RanBody(r) == r.ran_body

\* The init calls that returned 0, and those that ran the init body.
OkReturns == {i \in DOMAIN init_returns : ReturnedOk(init_returns[i])}
BodyReturns == {i \in DOMAIN init_returns : RanBody(init_returns[i])}

\* C1 as stated: for any number of init calls with valid arguments, under
\* every interleaving, exactly one call returns 0 and every other call
\* returns -EEXIST.
C1_ExactlyOneSuccess ==
    (OnlyValidInitCalls /\ InInit = {} /\ init_returns # <<>>)
        => /\ Cardinality(OkReturns) = 1
           /\ \A r \in Returns : ReturnedOk(r) \/ ReturnedExist(r)

\* C1 amended: for any number of init calls with valid arguments, under every
\* interleaving, every call returns 0 or -EEXIST; exactly one call runs the
\* init body and that call returns 0; a call returns -EEXIST exactly when
\* its readiness load found the flag set; a call that found it unset and
\* lost the once-guard returns 0 as well, so overlapping calls may all
\* return 0.
C1_OneWinnerOthersExistOrOverlap ==
    OnlyValidInitCalls
        => /\ \A r \in Returns :
                 /\ ReturnedOk(r) \/ ReturnedExist(r)
                 /\ ReturnedExist(r) <=> r.saw_ready
                 /\ RanBody(r) => ReturnedOk(r)
           /\ Cardinality(BodyReturns) <= 1
           /\ (InInit = {} /\ init_returns # <<>>)
                 => Cardinality(BodyReturns) = 1

\* Three init calls with valid arguments have ended: the winner with 0, an
\* overlapping loser with 0, and a later call with -EEXIST.
C1_Witness ==
    /\ OnlyValidInitCalls
    /\ InInit = {}
    /\ \E i, j, k \in DOMAIN init_returns :
          /\ ReturnedOk(init_returns[i]) /\ RanBody(init_returns[i])
          /\ ReturnedOk(init_returns[j]) /\ ~RanBody(init_returns[j])
          /\ ReturnedExist(init_returns[k]) /\ init_returns[k].saw_ready

\* The gate let the last new_process / exec_thread call through.
GatePassed == last_call.op # "none" /\ last_call.calls # <<>>

InitBodySteps == <<"log", "mpx", "exception", "paths", "ready">>

FullyInitialised ==
    /\ init_steps = InitBodySteps
    /\ logger # "unset"
    /\ mpx_enabled = platform.mpx
    /\ handlers = 1
    /\ ENCLAVE_PATH = INSTANCE_DIR \o ENCLAVE_SUFFIX

\* C3: when the readiness flag is true the whole init sequence has run, in
\* the order log init, platform feature step, exception handlers, paths;
\* and a new_process or exec_thread call that passed the gate saw the
\* complete state (the enclave-image path it read is the final one).
C3_ReadyImpliesInitialised ==
    /\ HAS_INIT => FullyInitialised
    /\ GatePassed => FullyInitialised
    /\ (GatePassed /\ "enable_backtrace" \in {last_call.calls[i] :
                                               i \in DOMAIN last_call.calls})
           => last_call.backtrace = INSTANCE_DIR \o ENCLAVE_SUFFIX

\* A new_process call passed the gate and spawned a process.
C3_Witness ==
    /\ HAS_INIT
    /\ last_call.op = "new_process"
    /\ last_call.inner = "ok"
    /\ last_call.backtrace = GoodDir \o ENCLAVE_SUFFIX

CountStep(step) == Cardinality({i \in DOMAIN init_steps : init_steps[i] = step})

\* C4: across any number of init calls, under any interleaving, each step
\* of the init body runs at most once: the paths are written at most once
\* and readiness is set at most once.
C4_BodyAtMostOnce ==
    /\ \A i \in DOMAIN InitBodySteps : CountStep(InitBodySteps[i]) <= 1
    /\ handlers <= 1
    /\ Cardinality(BodyReturns)
           + Cardinality({t \in Threads : frame[t].ran_body}) <= 1
    /\ INSTANCE_DIR \in {<<>>} \cup {d.bytes : d \in InstanceDirInputs}
    /\ ENCLAVE_PATH \in {<<>>, INSTANCE_DIR \o ENCLAVE_SUFFIX}

\* The body has run and a second init call went through call_once after it.
C4_Witness ==
    /\ INIT_ONCE = "COMPLETE"
    /\ CountStep("ready") = 1
    /\ \E r \in Returns : ReturnedOk(r) /\ ~RanBody(r)

(***************************************************************************)
(* Properties of new_process and exec_thread on an initialised gateway.    *)
(***************************************************************************)
Invoked(fn) == \E i \in DOMAIN last_call.calls : last_call.calls[i] = fn

IndexOf(fn) == CHOOSE i \in DOMAIN last_call.calls : last_call.calls[i] = fn

\* The path policy, stated on the components of a path.
IsAbsolutePath(P) == Len(P) > 0 /\ P[1] = "/"
HasDotDot(P) == \E i \in DOMAIN components(P) : components(P)[i] = <<".", ".">>
HasAllowedPrefix(P) ==
    \E i \in DOMAIN entry_points :
        IsPrefixSeq(components(entry_points[i]), components(P))
PathPolicy(P) == IsAbsolutePath(P) /\ ~HasDotDot(P) /\ HasAllowedPrefix(P)

\* The last component of P is a file name.
HasFileName(P) ==
    /\ components(P) # <<>>
    /\ components(P)[Len(components(P))] \notin {<<"/">>, <<".">>, <<".", ".">>}

\* The last call was a new_process call on an initialised gateway whose
\* arguments other than the path were well-formed, whose path was text, and
\* in which no fault kept the bootstrap from reaching the spawn.
WellFormedBoot ==
    /\ last_call.op = "new_process"
    /\ Invoked("parse_arguments")
    /\ ~last_call.host.path.null
    /\ IsText(last_call.host.path.bytes)
    /\ \A i \in DOMAIN last_call.host.args : last_call.host.args[i].valid
    /\ last_call.host.fds.valid
    /\ last_call.inner = "panic" => Invoked("do_spawn_without_exec")

\* C5 as stated: a path P given to new_process on an initialised gateway
\* reaches the spawn primitive if and only if P is absolute, has no ".."
\* component and some allow-list entry is a component-wise prefix of P.
C5_AcceptedIffPolicy ==
    WellFormedBoot
        => (Invoked("do_spawn_without_exec")
               <=> PathPolicy(last_call.host.path.bytes))

\* C5 amended: P reaches the spawn primitive if and only if P has a
\* file-name component (it does not name the root directory) and is
\* absolute, has no ".." component and some allow-list entry is a
\* component-wise prefix of P.
C5_AcceptedIffFileNameAndPolicy ==
    WellFormedBoot
        => (Invoked("do_spawn_without_exec")
               <=> (HasFileName(last_call.host.path.bytes)
                      /\ PathPolicy(last_call.host.path.bytes)))

\* A path of several components, written with a repeated separator and a
\* "." segment, was accepted under an allow-list entry that is a proper
\* prefix of it.
C5_Witness ==
    /\ WellFormedBoot
    /\ last_call.inner = "ok"
    /\ Invoked("do_spawn_without_exec")
    /\ last_call.host.path.bytes = <<"/", "/", "a", "/", ".", "/", "a", "/">>
    /\ entry_points = << <<"/", "a">> >>

\* The validator ran in the last call and no fault was raised in it.
Validated ==
    /\ last_call.op = "new_process"
    /\ Invoked("validate_program_path")
    /\ ~(last_call.inner = "panic" /\ ~Invoked("LIBOS_CONFIG.env"))

\* C6: the checks run in the order absolute, no "..", allow-list, and the
\* first failing one decides the status: a relative path gives -EINVAL
\* whatever else holds of it, an absolute path with ".." gives -EINVAL
\* whether or not an entry is a prefix of it, an absolute path without ".."
\* that no entry is a prefix of gives -EACCES.
C6_FirstFailingCheckWins ==
    Validated
        => LET P == last_call.host.path.bytes
           IN /\ ~IsAbsolutePath(P) => last_call.status = ecall_errno(EINVAL)
              /\ (IsAbsolutePath(P) /\ HasDotDot(P))
                     => last_call.status = ecall_errno(EINVAL)
              /\ (IsAbsolutePath(P) /\ ~HasDotDot(P) /\ ~HasAllowedPrefix(P))
                     => last_call.status = ecall_errno(EACCES)

\* An absolute path with ".." that no allow-list entry is a prefix of was
\* rejected with -EINVAL, not -EACCES.
C6_Witness ==
    /\ Validated
    /\ IsAbsolutePath(last_call.host.path.bytes)
    /\ HasDotDot(last_call.host.path.bytes)
    /\ ~HasAllowedPrefix(last_call.host.path.bytes)
    /\ last_call.status = ecall_errno(EINVAL)

\* C7: whenever the spawn primitive is invoked, the validator ran before it
\* in the same call, on the very path handed to spawn, and that path is
\* absolute, has no ".." and has an allow-list prefix.
C7_SpawnOnlyAfterValidation ==
    Invoked("do_spawn_without_exec")
        => /\ Invoked("validate_program_path")
           /\ IndexOf("validate_program_path") < IndexOf("do_spawn_without_exec")
           /\ last_call.spawn.path = last_call.host.path.bytes
           /\ PathPolicy(last_call.spawn.path)

\* The spawn primitive was invoked with a path below an allow-list entry.
C7_Witness ==
    /\ Invoked("do_spawn_without_exec")
    /\ last_call.spawn.path = <<"/", "a", "/", "a">>
    /\ entry_points = << <<"/", "a">> >>

\* C8: a fault raised inside the bootstrap of new_process or inside the
\* thread execution of exec_thread makes the call return exactly -EFAULT.
C8_FaultContained ==
    (last_call.op \in {"new_process", "exec_thread"} /\ last_call.inner = "panic")
        => last_call.status = ecall_errno(EFAULT)

\* The filesystem sync of an exec_thread call raised a fault and the call
\* returned -EFAULT.
C8_Witness ==
    /\ last_call.op = "exec_thread"
    /\ last_call.inner = "panic"
    /\ Invoked("fs().sync")
    /\ last_call.status = ecall_errno(EFAULT)

\* C9: when the wrapped operation fails without a fault, with errno E, the
\* call returns exactly -E; in particular not -EFAULT unless E is EFAULT.
C9_ErrnoPropagates ==
    (last_call.op \in {"new_process", "exec_thread"} /\ last_call.inner = "err")
        => /\ last_call.status = ecall_errno(last_call.errno)
           /\ last_call.errno # EFAULT => last_call.status # ecall_errno(EFAULT)

\* The filesystem sync of an exec_thread call failed with EACCES and the
\* call returned -EACCES.
C9_Witness ==
    /\ last_call.op = "exec_thread"
    /\ last_call.inner = "err"
    /\ Invoked("fs().sync")
    /\ last_call.errno = EACCES
    /\ last_call.status = ecall_errno(EACCES)

\* C10: the argument list handed to spawn has one element more than the
\* host's vector: element 0 is the last component of the program path and
\* the others are the host's strings in their order.
C10_ArgvMarshalled ==
    Invoked("do_spawn_without_exec")
        => LET P == last_call.host.path.bytes
               given == last_call.host.args
               built == last_call.spawn.args
           IN /\ Len(built) = Len(given) + 1
              /\ built[1] = components(P)[Len(components(P))]
              /\ \A i \in DOMAIN given : built[i + 1] = given[i].bytes

\* Spawn received <<file name, x, y>> for the host vector <<x, y>>.
C10_Witness ==
    /\ Invoked("do_spawn_without_exec")
    /\ last_call.host.path.bytes = <<"/", "a", "a">>
    /\ last_call.host.args = <<ArgEntry(<<"x">>), ArgEntry(<<"y">>)>>
    /\ last_call.spawn.args = << <<"a", "a">>, <<"x">>, <<"y">> >>

(***************************************************************************)
(* Properties of the log level.                                            *)
(***************************************************************************)
\* The recognised level names, in small letters, and the level of each.
LevelNames ==
    { [name |-> <<"o", "f", "f">>, level |-> "Off"],
      [name |-> <<"p", "a", "n", "i", "c">>, level |-> "Error"],
      [name |-> <<"f", "a", "t", "a", "l">>, level |-> "Error"],
      [name |-> <<"e", "r", "r", "o", "r">>, level |-> "Error"],
      [name |-> <<"w", "a", "r", "n", "i", "n", "g">>, level |-> "Warn"],
      [name |-> <<"w", "a", "r", "n">>, level |-> "Warn"],
      [name |-> <<"i", "n", "f", "o">>, level |-> "Info"],
      [name |-> <<"d", "e", "b", "u", "g">>, level |-> "Debug"],
      [name |-> <<"t", "r", "a", "c", "e">>, level |-> "Trace"] }

\* The pointer holds a recognised level name, in any mix of cases.
IsRecognised(ptr) ==
    ~ptr.null /\ \E n \in LevelNames : to_lowercase(ptr.bytes) = n.name

\* The level a log_level argument asks for: that of its name, else Off.
RequestedLevel(ptr) ==
    IF IsRecognised(ptr)
    THEN (CHOOSE n \in LevelNames : to_lowercase(ptr.bytes) = n.name).level
    ELSE "Off"

\* The init calls that are past util::log::init in the init body.
PastLogInit == {t \in Threads : frame[t].ran_body /\ pc[t] # "log"}

\* C11: when the capability probe reports that debug is not allowed, the
\* level the init body gives to the logger is Off for every requested
\* level string (names, aliases, unknown strings, null); when debug is
\* allowed it is the requested level.
C11_DebugGateOnLogLevel ==
    /\ ~platform.allow_debug => logger \in {"unset", "Off"}
    /\ \A t \in PastLogInit :
          logger = IF platform.allow_debug
                   THEN RequestedLevel(frame[t].level_chars)
                   ELSE "Off"

\* On a platform without debug, an init call that asked for "trace" has
\* initialised the logger with Off.
C11_Witness ==
    /\ ~platform.allow_debug
    /\ \E t \in PastLogInit :
          /\ frame[t].level_chars = Ptr(<<"t", "r", "a", "c", "e">>)
          /\ pc[t] = "return"
    /\ logger = "Off"
    /\ HAS_INIT

\* The log_level argument is null or points to text.
IsTextOrNull(ptr) == ptr.null \/ IsText(ptr.bytes)

\* C12 as stated: no value of log_level makes init fail: an init call
\* returns 0 or -EEXIST, never an error on account of its log level.
C12_NoLogLevelFailsInit ==
    \A r \in Returns : r.returned => r.status \in {0, ecall_errno(EEXIST)}

\* The step appends an init return; LastReturn is that return.
InitReturnsGrows == Len(init_returns') = Len(init_returns) + 1
LastReturn == init_returns[Len(init_returns)]

\* C12 amended: an init call on a gateway that is not initialised, given a
\* log_level that is null or text, is never rejected on account of it: no
\* step that returns -EINVAL is a call with such a log_level, and a call
\* that goes on to the once-guard has the level Off when its log_level is
\* not a recognised name; a call given a log_level that is not text (and
\* an instance_dir that is not null) never gets to the once-guard.
C12_TextLogLevelNeverFailsInit ==
    [][/\ (InitReturnsGrows /\ ReturnedInval(LastReturn'))
            => \A t \in Threads, l \in AllLogLevelInputs, d \in InstanceDirInputs :
                  InitCall(t, l, d) => ~IsTextOrNull(l)
       /\ \A t \in Threads :
             (pc[t] = "idle" /\ pc'[t] = "call_once")
                 => /\ IsTextOrNull(frame'[t].level_chars)
                    /\ ~IsRecognised(frame'[t].level_chars)
                           => frame'[t].log_level = "Off"
                    /\ \A l \in AllLogLevelInputs, d \in InstanceDirInputs :
                           InitCall(t, l, d) => l = frame'[t].level_chars]_vars

\* On a platform with debug, an init call that asked for "verbose" stands
\* at the once-guard with the level Off.
C12_Witness ==
    /\ platform.allow_debug
    /\ \E t \in Threads :
          /\ pc[t] = "call_once"
          /\ frame[t].level_chars = Ptr(<<"v", "e", "r", "b", "o", "s", "e">>)
          /\ frame[t].log_level = "Off"

(***************************************************************************)
(* Properties of the status of new_process and exec_thread.                *)
(***************************************************************************)
\* C13: the status of a new_process or exec_thread call is non-negative
\* exactly when the call succeeded and negative exactly when it failed,
\* for every process id of the unsigned 32-bit pid type and every exit
\* status, once converted to the signed 32-bit return value; the status of
\* a failure with an errno is the negated errno.
C13_SignTellsOutcome ==
    last_call.op \in {"new_process", "exec_thread"}
        => /\ last_call.inner = "ok" <=> last_call.status >= 0
           /\ last_call.inner = "err"
                  => last_call.status = ecall_errno(last_call.errno)

(***************************************************************************)
(* Frame properties.                                                       *)
(***************************************************************************)
\* What the init body writes, with the once-guard and the init callers.
InitState ==
    <<HAS_INIT, INIT_ONCE, INSTANCE_DIR, ENCLAVE_PATH, logger, mpx_enabled,
      handlers, init_steps, pc, frame>>

\* C14: once readiness is true, an init call that starts gets no further
\* than the readiness load, whatever log_level and instance_dir it is
\* given (null and non-text included): it returns -EEXIST at once, and the
\* logger, the exception handlers, INSTANCE_DIR, ENCLAVE_PATH and the
\* readiness flag are the same after it as before.
C14_InitAfterReadyIsNoOp ==
    [][HAS_INIT
        => /\ \A t \in Threads : pc[t] = "idle" => pc'[t] = "idle"
           /\ (InitReturnsGrows /\ pc' = pc)
                 => /\ SubSeq(init_returns', 1, Len(init_returns)) = init_returns
                    /\ ReturnedExist(LastReturn')
                    /\ LastReturn'.saw_ready
                    /\ InitState' = InitState]_vars

\* On an initialised gateway an init call with arguments that are not
\* valid has returned -EEXIST, and the state is that of the one init body.
C14_Witness ==
    /\ HAS_INIT
    /\ FullyInitialised
    /\ InInit = {}
    /\ \E r \in Returns : r.saw_ready /\ ~r.valid /\ ReturnedExist(r)

(***************************************************************************)
(* Properties of exec_thread.                                              *)
(***************************************************************************)
\* How often the last call invoked fn.
TimesInvoked(fn) ==
    Cardinality({i \in DOMAIN last_call.calls : last_call.calls[i] = fn})

\* C15: an exec_thread call that returns a success status ran the thread,
\* then synced the root filesystem exactly once, after task exec had
\* returned and as the last thing before the status is reported, and its
\* status is the exit status task exec produced, unmodified; no call syncs
\* before task exec or without it.
C15_SyncAfterExecStatusUnmodified ==
    last_call.op = "exec_thread"
        => /\ last_call.inner = "ok"
                 => /\ TimesInvoked("task::exec") = 1
                    /\ TimesInvoked("fs().sync") = 1
                    /\ IndexOf("task::exec") < IndexOf("fs().sync")
                    /\ IndexOf("fs().sync") = Len(last_call.calls)
                    /\ last_call.status = last_call.value
           /\ Invoked("fs().sync")
                 => /\ Invoked("task::exec")
                    /\ IndexOf("task::exec") < IndexOf("fs().sync")

\* An exec_thread call ran a thread that ended with status 256, synced and
\* returned 256.
C15_Witness ==
    /\ last_call.op = "exec_thread"
    /\ last_call.inner = "ok"
    /\ last_call.calls = <<"enable_backtrace", "task::exec", "fs().sync">>
    /\ last_call.value = 256
    /\ last_call.status = 256

(***************************************************************************)
(* Frame properties of new_process and exec_thread.                        *)
(***************************************************************************)
\* The last call passed the gate with arguments the marshaler cannot
\* accept: a null path, a path that is not text or has no file name, a
\* malformed entry in the argument vector, an invalid stdio struct.
MarshalFails ==
    /\ last_call.op = "new_process"
    /\ Invoked("parse_arguments")
    /\ \/ last_call.host.path.null
       \/ ~IsText(last_call.host.path.bytes)
       \/ ~HasFileName(last_call.host.path.bytes)
       \/ \E i \in DOMAIN last_call.host.args : ~last_call.host.args[i].valid
       \/ ~last_call.host.fds.valid

\* C16: a new_process call whose argument marshaling fails returns the
\* negated errno of that failure (EINVAL in each of the five cases), invokes
\* neither the path validator nor the spawn primitive nor anything else
\* behind the marshaler, and leaves the readiness flag, INSTANCE_DIR and
\* ENCLAVE_PATH as they were.
C16_MarshalFailureIsContained ==
    [][(last_call' # last_call /\ MarshalFails')
          => /\ last_call'.status = ecall_errno(EINVAL)
             /\ last_call'.calls = <<"parse_arguments">>
             /\ last_call'.inner = "none"
             /\ last_call'.spawn = NoArgs
             /\ UNCHANGED <<HAS_INIT, INSTANCE_DIR, ENCLAVE_PATH>>]_vars

\* A new_process call with a good path and a good argument vector but an
\* invalid stdio struct has returned -EINVAL from the marshaler.
C16_Witness ==
    /\ MarshalFails
    /\ last_call.host.path = Ptr(<<"/", "a">>)
    /\ last_call.host.args = <<ArgEntry(<<"x">>)>>
    /\ ~last_call.host.fds.valid
    /\ last_call.status = ecall_errno(EINVAL)
    /\ entry_points = << <<"/", "a">> >>

(***************************************************************************)
(* Overlapping init calls.                                                 *)
(***************************************************************************)
\* The init body has run to its end: readiness is set, the once-guard is
\* complete and the two paths are written.
BodyFinished ==
    /\ HAS_INIT
    /\ INIT_ONCE = "COMPLETE"
    /\ init_steps = InitBodySteps
    /\ ENCLAVE_PATH = INSTANCE_DIR \o ENCLAVE_SUFFIX

\* C17: no init call returns 0 before the one winner has finished the
\* whole init body: a call that stands at its `0`, and every call that has
\* returned 0, finds readiness true and the paths written; and as long as
\* the init body is not ended by a fault and the enclave is not aborted,
\* every init call that has reached the once-guard gets to its `0` and
\* returns.
C17_ReturnOnlyAfterBodyAndAllReturn ==
    /\ [](\A t \in Threads : pc[t] = "return" => BodyFinished)
    /\ []((\E r \in Returns : ReturnedOk(r)) => BodyFinished)
    /\ \A t \in Threads :
          (pc[t] = "call_once")
              ~> (pc[t] = "return" \/ crashed \/ INIT_ONCE = "POISONED")
    /\ \A t \in Threads : (pc[t] = "return") ~> (pc[t] = "idle" \/ crashed)

\* A caller that found readiness unset and did not run the body stands at
\* its `0` after the winner has returned.
C17_Witness ==
    /\ BodyFinished
    /\ \E t \in Threads :
          /\ pc[t] = "return"
          /\ ~frame[t].saw_ready
          /\ ~frame[t].ran_body
    /\ \E r \in Returns : ReturnedOk(r) /\ RanBody(r)

\* The step is a new_process or exec_thread call.
IsCallStep ==
    /\ last_call' # last_call
    /\ last_call'.op \in {"new_process", "exec_thread"}

\* C18: a new_process or exec_thread call, whatever its outcome (success,
\* -EAGAIN, an errno of the marshaler, the validator or a collaborator, a
\* contained fault), leaves the readiness flag, INSTANCE_DIR, ENCLAVE_PATH
\* and the rest of what init set up as they were; readiness once true
\* stays true; and a call made while readiness is true passes the gate,
\* whatever the calls before it did.
C18_CallsLeaveStateAlone ==
    [][/\ IsCallStep => InitState' = InitState /\ init_returns' = init_returns
       /\ HAS_INIT => HAS_INIT'
       /\ (HAS_INIT /\ IsCallStep) => GatePassed']_vars

\* A new_process call faulted in the spawn and returned -EFAULT; the
\* gateway is as ready as it was and its paths are those init wrote.
C18_Witness ==
    /\ last_call.op = "new_process"
    /\ last_call.inner = "panic"
    /\ last_call.status = ecall_errno(EFAULT)
    /\ HAS_INIT
    /\ INSTANCE_DIR = GoodDir
    /\ ENCLAVE_PATH = GoodDir \o ENCLAVE_SUFFIX

(***************************************************************************)
(* Init calls that fail.                                                   *)
(***************************************************************************)
\* The init calls before the i-th to end were all rejected with -EINVAL.
OnlyRejectedBefore(i) == \A j \in 1..(i - 1) : ReturnedInval(init_returns[j])

\* C19: an init call that returns -EINVAL for its log_level does not use up
\* the once-guard and writes nothing: while all init calls so far were
\* rejected, the guard is unused, readiness is false, the paths are empty
\* and new_process and exec_thread return -EAGAIN; and the first init call
\* with valid arguments after them runs the init body and returns 0.
C19_RejectedInitLeavesOnceUnused ==
    /\ (InInit = {} /\ \A r \in Returns : ReturnedInval(r))
           => /\ INIT_ONCE = "INCOMPLETE"
              /\ ~HAS_INIT
              /\ INSTANCE_DIR = <<>> /\ ENCLAVE_PATH = <<>>
              /\ logger = "unset" /\ handlers = 0 /\ init_steps = <<>>
              /\ last_call.op \in {"new_process", "exec_thread"}
                     => last_call.status = ecall_errno(EAGAIN)
    /\ \A i \in DOMAIN init_returns :
          (OnlyRejectedBefore(i) /\ init_returns[i].valid)
              => ReturnedOk(init_returns[i]) /\ RanBody(init_returns[i])

\* Two init calls were rejected with -EINVAL, then one with valid
\* arguments ran the init body and returned 0.
C19_Witness ==
    /\ Len(init_returns) = 3
    /\ ReturnedInval(init_returns[1])
    /\ ReturnedInval(init_returns[2])
    /\ init_returns[3].valid
    /\ ReturnedOk(init_returns[3]) /\ RanBody(init_returns[3])
    /\ HAS_INIT

\* An init call ran the init body and the body ended in a fault.
BodyFaulted ==
    \/ \E r \in Returns : r.ran_body /\ ~r.returned
    \/ \E t \in Threads : pc[t] = "panic" /\ frame[t].ran_body

\* After a fault in the init body the gateway is not ready, its paths are
\* unwritten and new_process and exec_thread return -EAGAIN.
NeverReadyAfterBodyFault ==
    BodyFaulted
        => /\ ~HAS_INIT
           /\ INIT_ONCE = "POISONED"
           /\ INSTANCE_DIR = <<>> /\ ENCLAVE_PATH = <<>>
           /\ last_call.op \in {"new_process", "exec_thread"}
                  => last_call.status = ecall_errno(EAGAIN)

====
